---- MODULE Spec2Model ----
(***************************************************************************)
(* Identity / follow graph / RBAC core of user-service (users app).        *)
(*                                                                         *)
(* Tables are modelled as row counts per natural key, so that a missing    *)
(* uniqueness constraint shows up as a count above one.  Operations that   *)
(* the app performs through the Django ORM (objects.create, delete,        *)
(* get_or_create, m2m add/remove) are modelled by what the ORM does with   *)
(* the constraints declared in users/models.py.                            *)
(***************************************************************************)
EXTENDS Integers, FiniteSets, Sequences, TLC

\* ---------------------------------------------------------------- universe
Users == {"u1", "u2", "u3"}
RoleNames == {"USER", "ADMIN"}
Resources == {"posts", "media"}
Bios == {"", "hello"}
NoRequest == "no_request"

\* bounds of the model (table sizes)
MaxEdges == 2
MaxGrants == 2
MaxAssignments == 2

\* ACCESS_LEVEL_CHOICES, in declaration order
ACCESS_LEVEL_CHOICES == <<"NONE", "VIEW", "WRITE", "FULL">>
Levels == {ACCESS_LEVEL_CHOICES[i] : i \in DOMAIN ACCESS_LEVEL_CHOICES}

\* Permission rows: unique_together (resource, level); all rows exist as
\* reference data.
Permissions == [resource : Resources, level : Levels]

VARIABLES
    users,        \* set of User rows (by id)
    is_active,    \* User.is_active
    is_superuser, \* User.is_superuser
    profileRows,  \* number of Profile rows per user
    profile,      \* fields of the user's Profile row
    follows,      \* number of Follow rows per (follower, following)
    roles,        \* set of Role rows (by unique name)
    rolePerms,    \* Role.permissions (many-to-many)
    userRoles,    \* number of UserRole rows per (user, role)
    reg,          \* position of each registration request
    call,         \* the concurrent role-assignment requests
    startRoles,   \* UserRole table when the concurrent requests were issued
    response      \* result of the last operation

vars == <<users, is_active, is_superuser, profileRows, profile, follows,
          roles, rolePerms, userRoles, reg, call, startRoles, response>>

\* ----------------------------------------------------------------- helpers
RECURSIVE SumOver(_, _)
SumOver(f, S) ==
    IF S = {} THEN 0
    ELSE LET x == CHOOSE y \in S : TRUE IN f[x] + SumOver(f, S \ {x})

TotalRows(table) == SumOver(table, DOMAIN table)

NoBody == [none |-> TRUE]

\* a and b of a result that names no identities
NoArg == "-"

Result(op, a, b, result, body) ==
    [op |-> op, a |-> a, b |-> b, result |-> result, body |-> body]

ProfileDefaults == [bio |-> "", is_private |-> FALSE, profile_views |-> 0]

\* ------------------------------------------------------------- graph store
\* variant: the pair is not declared unique
FollowUnique_missing(a, b) == TRUE

\* Follow.Meta.unique_together = ("follower", "following")
FollowUnique(a, b) == follows[<<a, b>>] = 0

\* variant: follower and following swapped in the filter
IsFollowing_reversed(a, b) == follows[<<b, a>>] > 0

\* Follow.objects.filter(follower=a, following=b).exists()
IsFollowing(a, b) == follows[<<a, b>>] > 0

\* ProfileSerializer.get_followers_count / get_following_count
get_followers_count(u) == SumOver([a \in Users |-> follows[<<a, u>>]], Users)

get_following_count(u) == SumOver([b \in Users |-> follows[<<u, b>>]], Users)

\* Follow.objects.create(follower=a, following=b): the only constraint the
\* model declares is the uniqueness of the pair.
AddEdge(a, b) ==
    /\ a \in users /\ b \in users
    /\ IF FollowUnique(a, b)
       THEN /\ TotalRows(follows) < MaxEdges
            /\ follows' = [follows EXCEPT ![<<a, b>>] = @ + 1]
            /\ response' = Result("AddEdge", a, b, "ok", NoBody)
       ELSE /\ follows' = follows
            /\ response' = Result("AddEdge", a, b, "IntegrityError", NoBody)
    /\ UNCHANGED <<users, is_active, is_superuser, profileRows, profile,
                   roles, rolePerms, userRoles, reg, call, startRoles>>

\* Follow.objects.filter(follower=a, following=b).delete()
RemoveEdge(a, b) ==
    /\ a \in users /\ b \in users
    /\ follows' = [follows EXCEPT ![<<a, b>>] = 0]
    /\ response' = Result("RemoveEdge", NoArg, NoArg, "ok", NoBody)
    /\ UNCHANGED <<users, is_active, is_superuser, profileRows, profile,
                   roles, rolePerms, userRoles, reg, call, startRoles>>

\* --------------------------------------------------------------- profiles
\* ModelSerializer.to_representation: every model field but id, plus the two
\* method fields (fields no modelled operation writes are left out).
FullRepresentation(u) ==
    [user |-> u,
     bio |-> profile[u].bio,
     is_private |-> profile[u].is_private,
     profile_views |-> profile[u].profile_views,
     followers_count |-> get_followers_count(u),
     following_count |-> get_following_count(u)]

PrivateDetail == [detail |-> "This profile is private. Follow to view details."]

\* variant: the follower lookup runs from the owner to the viewer
to_representation_reversed(request, instance) ==
    IF request = NoRequest THEN FullRepresentation(instance)
    ELSE IF /\ profile[instance].is_private
            /\ request # instance
            /\ ~IsFollowing_reversed(request, instance)
         THEN PrivateDetail
         ELSE FullRepresentation(instance)

\* variant: the private branch also returns a method field
to_representation_leaky(request, instance) ==
    IF request = NoRequest THEN FullRepresentation(instance)
    ELSE IF /\ profile[instance].is_private
            /\ request # instance
            /\ ~IsFollowing(request, instance)
         THEN [detail |-> PrivateDetail.detail,
               followers_count |-> get_followers_count(instance)]
         ELSE FullRepresentation(instance)

\* ProfileSerializer.to_representation
to_representation(request, instance) ==
    IF request = NoRequest THEN FullRepresentation(instance)
    ELSE IF /\ profile[instance].is_private
            /\ request # instance
            /\ ~IsFollowing(request, instance)
         THEN PrivateDetail
         ELSE FullRepresentation(instance)

IsRedacted(body) == "detail" \in DOMAIN body

IsFull(body) == "user" \in DOMAIN body

\* A profile read: serialises the target's profile for the requesting user.
\* Nothing is written.
ViewProfile(request, u) ==
    /\ u \in users /\ profileRows[u] > 0
    /\ request \in users \cup {NoRequest}
    /\ LET body == to_representation(request, u) IN
       response' = Result("view", request, u,
                          IF IsRedacted(body) THEN "Redacted" ELSE "Full", body)
    /\ UNCHANGED <<users, is_active, is_superuser, profileRows, profile,
                   follows, roles, rolePerms, userRoles, reg, call, startRoles>>

\* ProfileSerializer update: user and profile_views are read-only, id is
\* excluded; the other fields are written from the request.
UpdateProfile(u, private, bio) ==
    /\ u \in users /\ profileRows[u] > 0
    /\ profile' = [profile EXCEPT ![u].is_private = private, ![u].bio = bio]
    /\ response' = Result("update", NoArg, NoArg, "ok", NoBody)
    /\ UNCHANGED <<users, is_active, is_superuser, profileRows, follows,
                   roles, rolePerms, userRoles, reg, call, startRoles>>

\* -------------------------------------------------------------------- RBAC
\* variant: the pair is not declared unique
UserRoleUnique_missing(u, r) == TRUE

\* UserRole.Meta.unique_together = ("user", "role")
UserRoleUnique(u, r) == userRoles[<<u, r>>] = 0

\* variant: the rows are not filtered by user
UserRolesOf_unfiltered(u) == {r \in roles : \E w \in Users : userRoles[<<w, r>>] > 0}

\* user.user_roles (related_name of UserRole.user), as the set of role names
UserRolesOf(u) == {r \in roles : userRoles[<<u, r>>] > 0}

\* variant: levels compared as strings (FULL < NONE < VIEW < WRITE)
LevelRank_lexical(l) ==
    Cardinality({m \in Levels :
        \/ m = l
        \/ (m = "FULL")
        \/ (m = "NONE" /\ l \in {"VIEW", "WRITE"})
        \/ (m = "VIEW" /\ l = "WRITE")})

\* position of a level in ACCESS_LEVEL_CHOICES
LevelRank(l) == CHOOSE i \in DOMAIN ACCESS_LEVEL_CHOICES : ACCESS_LEVEL_CHOICES[i] = l

\* request.user.is_authenticated: true of every User row
is_authenticated(u) == u \in users

\* IsAdmin.has_permission
IsAdmin(u) == is_authenticated(u) /\ is_superuser[u]

\* IsNormalUser.has_permission
IsNormalUser(u) == is_authenticated(u) /\ "USER" \in UserRolesOf(u)

\* Resolve: union of the assigned roles' permissions, maximum level per
\* resource.
Resolve(u) ==
    LET perms == UNION {rolePerms[r] : r \in UserRolesOf(u)}
        held(x) == {p.level : p \in {q \in perms : q.resource = x}}
    IN [x \in {p.resource : p \in perms} |->
          CHOOSE l \in held(x) : \A m \in held(x) : LevelRank(m) <= LevelRank(l)]

\* Authorize: fails closed on a missing or inactive identity and on a
\* resource without an entry.
Authorize(u, resource, required) ==
    IF u \notin users \/ ~is_active[u] THEN "Deny"
    ELSE LET resolved == Resolve(u) IN
         IF resource \notin DOMAIN resolved THEN "Deny"
         ELSE IF LevelRank(resolved[resource]) >= LevelRank(required)
              THEN "Allow" ELSE "Deny"

\* UserRole.objects.create(user=u, role=r)
AssignRole(u, r) ==
    /\ u \in users /\ r \in roles
    /\ IF UserRoleUnique(u, r)
       THEN /\ TotalRows(userRoles) < MaxAssignments
            /\ userRoles' = [userRoles EXCEPT ![<<u, r>>] = @ + 1]
            /\ response' = Result("AssignRole", u, r, "ok", NoBody)
       ELSE /\ userRoles' = userRoles
            /\ response' = Result("AssignRole", u, r, "IntegrityError", NoBody)
    /\ UNCHANGED <<users, is_active, is_superuser, profileRows, profile,
                   follows, roles, rolePerms, reg, call, startRoles>>

\* UserRole.objects.filter(user=u, role=r).delete()
RevokeRole(u, r) ==
    /\ u \in users /\ r \in roles
    /\ userRoles' = [userRoles EXCEPT ![<<u, r>>] = 0]
    /\ response' = Result("RevokeRole", u, r, "ok", NoBody)
    /\ UNCHANGED <<users, is_active, is_superuser, profileRows, profile,
                   follows, roles, rolePerms, reg, call, startRoles>>

\* A permission check for caller u: both permission classes and the
\* resolved access levels.
CheckPermission(u) ==
    /\ u \in users
    /\ response' = Result("check", u, u, "ok",
                          [is_admin |-> IsAdmin(u),
                           is_normal_user |-> IsNormalUser(u),
                           resolved |-> Resolve(u)])
    /\ UNCHANGED <<users, is_active, is_superuser, profileRows, profile,
                   follows, roles, rolePerms, userRoles, reg, call, startRoles>>

\* Deactivation of an identity: is_active = False, nothing is deleted.
Deactivate(u) ==
    /\ u \in users /\ is_active[u]
    /\ is_active' = [is_active EXCEPT ![u] = FALSE]
    /\ response' = Result("Deactivate", u, u, "ok", NoBody)
    /\ UNCHANGED <<users, is_superuser, profileRows, profile, follows,
                   roles, rolePerms, userRoles, reg, call, startRoles>>

\* ------------------------------------------- concurrent role assignment
Workers == {1, 2}

\* A request handler receives its arguments.
IssueAssign(p, u, r) ==
    /\ call[p].pc = "idle"
    /\ u \in users /\ r \in roles
    /\ call' = [call EXCEPT ![p] = [pc |-> "pending", user |-> u, role |-> r,
                                    result |-> "none"]]
    /\ response' = Result("IssueAssign", u, r, "ok", NoBody)
    /\ UNCHANGED <<users, is_active, is_superuser, profileRows, profile,
                   follows, roles, rolePerms, userRoles, reg, startRoles>>

\* UserRole.objects.create(user=user, role=role): one INSERT, the store
\* enforces unique_together.
InsertAssign(p) ==
    /\ call[p].pc = "pending"
    /\ LET u == call[p].user
           r == call[p].role
       IN IF UserRoleUnique(u, r)
          THEN /\ userRoles' = [userRoles EXCEPT ![<<u, r>>] = @ + 1]
               /\ call' = [call EXCEPT ![p].pc = "done", ![p].result = "ok"]
               /\ response' = Result("AssignRole", u, r, "ok", NoBody)
          ELSE /\ userRoles' = userRoles
               /\ call' = [call EXCEPT ![p].pc = "done",
                                       ![p].result = "IntegrityError"]
               /\ response' = Result("AssignRole", u, r, "IntegrityError", NoBody)
    /\ UNCHANGED <<users, is_active, is_superuser, profileRows, profile,
                   follows, roles, rolePerms, reg, startRoles>>

\* ------------------------------------------------------------ registration
RoleInputs == {"user", "admin", "User"}

\* role_name.upper()
Upper(name) == IF name \in {"user", "User"} THEN "USER" ELSE "ADMIN"

\* Profile.user is a OneToOneField: at most one Profile row per user
ProfileUnique(u) == profileRows[u] = 0

\* role_name = validated_data.pop("role", "user");
\* user = User.objects.create_user(**validated_data)
RegCreateUser(u, role_name) ==
    /\ reg[u].pc = "none"
    /\ users' = users \cup {u}
    /\ is_active' = [is_active EXCEPT ![u] = TRUE]
    /\ reg' = [reg EXCEPT ![u] = [pc |-> "user_created", role |-> role_name]]
    /\ response' = Result("register", u, role_name, "running", NoBody)
    /\ UNCHANGED <<is_superuser, profileRows, profile, follows, roles,
                   rolePerms, userRoles, call, startRoles>>

\* Profile.objects.create(user=user)
RegCreateProfile(u) ==
    /\ reg[u].pc = "user_created"
    /\ IF ProfileUnique(u)
       THEN /\ profileRows' = [profileRows EXCEPT ![u] = @ + 1]
            /\ profile' = [profile EXCEPT ![u] = ProfileDefaults]
            /\ reg' = [reg EXCEPT ![u].pc = "profile_created"]
            /\ response' = Result("register", u, reg[u].role, "running", NoBody)
       ELSE /\ UNCHANGED <<profileRows, profile>>
            /\ reg' = [reg EXCEPT ![u].pc = "failed"]
            /\ response' = Result("register", u, reg[u].role, "IntegrityError", NoBody)
    /\ UNCHANGED <<users, is_active, is_superuser, follows, roles,
                   rolePerms, userRoles, call, startRoles>>

\* role, _ = Role.objects.get_or_create(name=role_name.upper())
RegGetOrCreateRole(u) ==
    /\ reg[u].pc = "profile_created"
    /\ roles' = roles \cup {Upper(reg[u].role)}
    /\ reg' = [reg EXCEPT ![u].pc = "role_ready"]
    /\ response' = Result("register", u, reg[u].role, "running", NoBody)
    /\ UNCHANGED <<users, is_active, is_superuser, profileRows, profile,
                   follows, rolePerms, userRoles, call, startRoles>>

\* UserRole.objects.create(user=user, role=role); return user
RegCreateUserRole(u) ==
    /\ reg[u].pc = "role_ready"
    /\ LET r == Upper(reg[u].role) IN
       IF UserRoleUnique(u, r)
       THEN /\ userRoles' = [userRoles EXCEPT ![<<u, r>>] = @ + 1]
            /\ reg' = [reg EXCEPT ![u].pc = "done"]
            /\ response' = Result("register", u, reg[u].role, "ok", NoBody)
       ELSE /\ userRoles' = userRoles
            /\ reg' = [reg EXCEPT ![u].pc = "failed"]
            /\ response' = Result("register", u, reg[u].role, "IntegrityError", NoBody)
    /\ UNCHANGED <<users, is_active, is_superuser, profileRows, profile,
                   follows, roles, rolePerms, call, startRoles>>

\* The next store write of create() raises (store unavailable): the
\* exception leaves create(); create() opens no transaction, so the writes
\* already made stay.
RegWriteFails(u) ==
    /\ reg[u].pc \in {"user_created", "profile_created", "role_ready"}
    /\ reg' = [reg EXCEPT ![u].pc = "failed"]
    /\ response' = Result("register", u, reg[u].role, "StoreUnavailableError", NoBody)
    /\ UNCHANGED <<users, is_active, is_superuser, profileRows, profile,
                   follows, roles, rolePerms, userRoles, call, startRoles>>

\* ------------------------------------------------------------ initial state
NoCalls ==
    [p \in Workers |-> [pc |-> "idle", user |-> "u1", role |-> "USER", result |-> "none"]]

NoResponse == Result("none", "u1", "u1", "none", NoBody)

\* Every user registered by RegisterSerializer.create with the default role:
\* an active user, its profile, and the USER role.
Registered ==
    /\ users = Users
    /\ is_active = [u \in Users |-> TRUE]
    /\ profileRows = [u \in Users |-> 1]
    /\ reg = [u \in Users |-> [pc |-> "done", role |-> "user"]]
    /\ roles = RoleNames
    /\ call = NoCalls
    /\ response = NoResponse

DefaultAssignments == [p \in Users \X RoleNames |-> IF p[2] = "USER" THEN 1 ELSE 0]

\* ---- follow graph and profile visibility
Init ==
    /\ Registered
    /\ profile = [u \in Users |-> ProfileDefaults]
    /\ is_superuser = [u \in Users |-> FALSE]
    /\ follows = [p \in Users \X Users |-> 0]
    /\ rolePerms = [r \in RoleNames |-> {}]
    /\ userRoles = DefaultAssignments
    /\ startRoles = userRoles

Next ==
    \/ \E a, b \in Users : AddEdge(a, b)
    \/ \E a, b \in Users : RemoveEdge(a, b)
    \/ \E v \in Users \cup {NoRequest}, u \in Users : ViewProfile(v, u)
    \/ \E u \in Users, private \in BOOLEAN, bio \in Bios : UpdateProfile(u, private, bio)

Spec == Init /\ [][Next]_vars

\* ---- role-based access: Role.permissions is reference data drawn at start
GrantTables ==
    {g \in [RoleNames -> SUBSET Permissions] :
        SumOver([r \in RoleNames |-> Cardinality(g[r])], RoleNames) <= MaxGrants}

InitAccess ==
    /\ Registered
    /\ profile = [u \in Users |-> ProfileDefaults]
    /\ is_superuser = [u \in Users |-> FALSE]
    /\ follows = [p \in Users \X Users |-> 0]
    /\ rolePerms \in GrantTables
    /\ userRoles = [p \in Users \X RoleNames |-> 0]
    /\ startRoles = userRoles

NextAccess ==
    \/ \E u \in Users, r \in RoleNames : AssignRole(u, r)
    \/ \E u \in Users, r \in RoleNames : RevokeRole(u, r)
    \/ \E u \in Users : CheckPermission(u)

SpecAccess == InitAccess /\ [][NextAccess]_vars

\* ---- deactivation: any privacy flags and admin flags
InitDeact ==
    /\ Registered
    /\ profile \in [Users -> {[ProfileDefaults EXCEPT !.is_private = b] : b \in BOOLEAN}]
    /\ is_superuser \in [Users -> BOOLEAN]
    /\ follows = [p \in Users \X Users |-> 0]
    /\ rolePerms = [r \in RoleNames |-> {}]
    /\ userRoles = DefaultAssignments
    /\ startRoles = userRoles

NextDeact ==
    \/ \E u \in Users : Deactivate(u)
    \/ \E u \in Users : CheckPermission(u)
    \/ \E v \in Users, u \in Users : ViewProfile(v, u)

SpecDeact == InitDeact /\ [][NextDeact]_vars

\* ---- two concurrent AssignRole requests over any small UserRole table
AssignmentTables ==
    {t \in [Users \X RoleNames -> {0, 1}] : TotalRows(t) <= MaxAssignments}

InitAssign ==
    /\ Registered
    /\ profile = [u \in Users |-> ProfileDefaults]
    /\ is_superuser = [u \in Users |-> FALSE]
    /\ follows = [p \in Users \X Users |-> 0]
    /\ rolePerms = [r \in RoleNames |-> {}]
    /\ userRoles \in AssignmentTables
    /\ startRoles = userRoles

NextAssign ==
    \/ \E p \in Workers, u \in Users, r \in RoleNames : IssueAssign(p, u, r)
    \/ \E p \in Workers : InsertAssign(p)

SpecAssign == InitAssign /\ [][NextAssign]_vars

\* ---- registration requests against an empty store
InitRegister ==
    /\ users = {}
    /\ is_active = [u \in Users |-> FALSE]
    /\ is_superuser = [u \in Users |-> FALSE]
    /\ profileRows = [u \in Users |-> 0]
    /\ profile = [u \in Users |-> ProfileDefaults]
    /\ follows = [p \in Users \X Users |-> 0]
    /\ roles = {}
    /\ rolePerms = [r \in RoleNames |-> {}]
    /\ userRoles = [p \in Users \X RoleNames |-> 0]
    /\ reg = [u \in Users |-> [pc |-> "none", role |-> "user"]]
    /\ call = NoCalls
    /\ startRoles = userRoles
    /\ response = NoResponse

NextRegister ==
    \/ \E u \in Users, role_name \in RoleInputs : RegCreateUser(u, role_name)
    \/ \E u \in Users : RegCreateProfile(u)
    \/ \E u \in Users : RegGetOrCreateRole(u)
    \/ \E u \in Users : RegCreateUserRole(u)
    \/ \E u \in Users : RegWriteFails(u)

SpecRegister == InitRegister /\ [][NextRegister]_vars

\* ================================================================= claims
Edge(a, b) == follows[<<a, b>>] > 0

\* C1: for a private profile of U and a viewer V # U, a view by V is Redacted
\* exactly while no follow edge (V,U) exists and Full once AddEdge(V,U) has
\* succeeded; U's view of the own profile is Full whatever the privacy flag
\* and the graph are.
C1_Visibility ==
    /\ \A u \in users, v \in users :
          (v # u /\ profile[u].is_private) =>
             /\ ~Edge(v, u) => to_representation(v, u) = PrivateDetail
             /\ Edge(v, u) => IsFull(to_representation(v, u))
    /\ \A u \in users : IsFull(to_representation(u, u))
    /\ (response.op = "view" /\ response.a \in Users) =>
          /\ response.a = response.b => response.result = "Full"
          /\ (response.a # response.b /\ profile[response.b].is_private) =>
                (response.result = "Redacted" <=> ~Edge(response.a, response.b))
    /\ (response.op = "AddEdge" /\ response.result = "ok") =>
          IsFull(to_representation(response.a, response.b))

C1_Witness ==
    /\ response.op = "view" /\ response.result = "Full"
    /\ response.a \in Users /\ response.a # response.b
    /\ profile[response.b].is_private
    /\ Edge(response.a, response.b)
    /\ \E w \in Users \ {response.a, response.b} :
          to_representation(w, response.b) = PrivateDetail

\* C2: a Redacted result carries only the redaction reason: a viewer who is
\* neither owner nor follower of two private profiles receives the identical
\* result for both, whatever their bios and follower/following counts are.
C2_RedactedCarriesOnlyReason ==
    /\ \A v \in users, t1 \in users, t2 \in users :
          (/\ v # t1 /\ v # t2
           /\ profile[t1].is_private /\ profile[t2].is_private
           /\ ~Edge(v, t1) /\ ~Edge(v, t2)) =>
             /\ to_representation(v, t1) = to_representation(v, t2)
             /\ DOMAIN to_representation(v, t1) = {"detail"}
    /\ (response.op = "view" /\ response.result = "Redacted") =>
          DOMAIN response.body = {"detail"}

C2_Witness ==
    /\ response.op = "view" /\ response.result = "Redacted"
    /\ \E t2 \in Users \ {response.a, response.b} :
          /\ profile[t2].is_private /\ ~Edge(response.a, t2)
          /\ profile[t2].bio # profile[response.b].bio
          /\ get_followers_count(t2) # get_followers_count(response.b)

\* C3: a profile view raises the target's view counter by exactly one when it
\* yields Full disclosure to a non-owner, and leaves every counter unchanged
\* when it is Redacted or an owner view.
C3_ViewCounter ==
    [][response'.op = "view" =>
          \A u \in Users :
             profile'[u].profile_views =
                profile[u].profile_views +
                   (IF /\ u = response'.b
                       /\ response'.result = "Full"
                       /\ response'.a # response'.b
                    THEN 1 ELSE 0)]_vars

\* C6: AddEdge(a,a) fails with SelfFollowError and the follow graph never
\* holds an edge whose follower equals its following.
C6_NoSelfFollow ==
    /\ \A a \in Users : follows[<<a, a>>] = 0
    /\ (response.op = "AddEdge" /\ response.a = response.b) =>
          response.result = "SelfFollowError"

\* C7: at most one edge per ordered pair exists; an AddEdge(a,b), a # b,
\* issued while the edge exists fails with the duplicate error (the store's
\* IntegrityError) and leaves the graph unchanged; an AddEdge(a,b) issued
\* while the edge is absent (also after RemoveEdge(a,b)) succeeds and creates
\* it.
C7_DuplicateEdge ==
    /\ [](\A a \in Users, b \in Users : follows[<<a, b>>] <= 1)
    /\ [][(response'.op = "AddEdge" /\ response'.a # response'.b) =>
            LET a == response'.a
                b == response'.b
            IN IF follows[<<a, b>>] > 0
               THEN response'.result = "IntegrityError" /\ follows' = follows
               ELSE /\ response'.result = "ok"
                    /\ follows' = [follows EXCEPT ![<<a, b>>] = 1]]_vars
    /\ [][(response'.op = "RemoveEdge") =>
            \E a \in Users, b \in Users :
               follows' = [follows EXCEPT ![<<a, b>>] = 0]]_vars

C7_Witness ==
    /\ response.op = "AddEdge" /\ response.result = "IntegrityError"
    /\ response.a # response.b
    /\ follows[<<response.a, response.b>>] = 1

HasNoRole(u) == \A r \in RoleNames : userRoles[<<u, r>>] = 0

\* C4: an identity that holds no role assignment is denied by the
\* authorization check for every resource and every required level, and is
\* refused by the role-based permission class.
C4_NoRolesDenied ==
    /\ \A u \in users :
          HasNoRole(u) =>
             /\ \A x \in Resources, l \in Levels : Authorize(u, x, l) = "Deny"
             /\ ~IsNormalUser(u)
    /\ (response.op = "check" /\ HasNoRole(response.a)) =>
          /\ ~response.body.is_normal_user
          /\ DOMAIN response.body.resolved = {}

C4_Witness ==
    /\ response.op = "check" /\ HasNoRole(response.a)
    /\ \E w \in Users, x \in Resources, l \in Levels :
          /\ w # response.a
          /\ Authorize(w, x, l) = "Allow"
          /\ IsNormalUser(w)

Order(l) == CASE l = "NONE" -> 0 [] l = "VIEW" -> 1 [] l = "WRITE" -> 2 [] l = "FULL" -> 3

HeldLevels(u, x) ==
    {l \in Levels :
        \E r \in RoleNames :
           /\ userRoles[<<u, r>>] > 0
           /\ [resource |-> x, level |-> l] \in rolePerms[r]}

\* C5: Resolve returns, for each resource, exactly the maximum level in the
\* order NONE < VIEW < WRITE < FULL among the permissions on that resource
\* held by any of the identity's assigned roles, and no entry for a resource
\* none of its roles has a permission on.
C5_ResolveUnionThenMax ==
    /\ \A u \in users, x \in Resources :
          IF HeldLevels(u, x) = {}
          THEN x \notin DOMAIN Resolve(u)
          ELSE /\ x \in DOMAIN Resolve(u)
               /\ Resolve(u)[x] \in HeldLevels(u, x)
               /\ \A l \in HeldLevels(u, x) : Order(l) <= Order(Resolve(u)[x])
    /\ response.op = "check" =>
          \A x \in DOMAIN response.body.resolved :
             \A l \in HeldLevels(response.a, x) :
                Order(l) <= Order(response.body.resolved[x])

C5_Witness ==
    /\ response.op = "check"
    /\ \E x \in Resources, y \in Resources :
          /\ Cardinality(HeldLevels(response.a, x)) >= 2
          /\ Cardinality(UserRolesOf(response.a)) >= 2
          /\ HeldLevels(response.a, y) = {}
          /\ x \in DOMAIN response.body.resolved
          /\ y \notin DOMAIN response.body.resolved

SamePair == call[1].user = call[2].user /\ call[1].role = call[2].role

\* C8: two concurrent AssignRole calls for the same (identity, role) pair,
\* started while the assignment is absent: exactly one succeeds, the other
\* fails with the duplicate error (the store's IntegrityError), and exactly
\* one assignment for the pair exists afterwards.
C8_ConcurrentAssign ==
    (/\ call[1].pc = "done" /\ call[2].pc = "done"
     /\ SamePair
     /\ startRoles[<<call[1].user, call[1].role>>] = 0) =>
        /\ {call[1].result, call[2].result} = {"ok", "IntegrityError"}
        /\ userRoles[<<call[1].user, call[1].role>>] = 1

C8_Witness ==
    /\ call[1].pc = "done" /\ call[2].pc = "done"
    /\ SamePair
    /\ startRoles[<<call[1].user, call[1].role>>] = 0
    /\ call[2].result = "ok" /\ call[1].result = "IntegrityError"

\* C9: for a deactivated identity every permission check made for it as
\* caller denies, whatever roles or admin flag it holds, and every profile
\* view that targets it discloses no profile data.
C9_DeactivatedDenied ==
    \A u \in users :
       ~is_active[u] =>
          /\ ~IsAdmin(u)
          /\ ~IsNormalUser(u)
          /\ \A x \in Resources, l \in Levels : Authorize(u, x, l) = "Deny"
          /\ \A v \in users : ~IsFull(to_representation(v, u))

\* C10: every active identity has exactly one Profile in every reachable
\* state, including the states a failed registration leaves behind.
C10_OneProfilePerActiveIdentity ==
    \A u \in users : is_active[u] => profileRows[u] = 1

====
